---- MODULE Spec2Model ----
(***************************************************************************)
(* A model of the ray tracer of src/raytracer.hpp and of its two canvases  *)
(* (src/compile_time.cpp, src/run_time.cpp).                               *)
(*                                                                         *)
(* real_t (float) is modelled as a binary fixed-point number with Scale    *)
(* steps per unit, rounded to nearest (ties to even) after every           *)
(* operation, together with the IEEE-754 special values the code relies    *)
(* on: signed zeros, +/-infinity and NaN.  A value is a record             *)
(*    [k |-> "fin" | "inf" | "nan", s |-> 1 | -1, m |-> magnitude]         *)
(* where m counts steps of 1/Scale.  Magnitudes above FltMaxM overflow to  *)
(* infinity, as a float operation does above numeric_limits::max().        *)
(***************************************************************************)
EXTENDS Integers, Sequences, FiniteSets, TLC

VARIABLES
    stdMath,    \* the build defines HAVE_CONSTEXPR_STD_MATH (libstdc++)
    ub,         \* the integer (0 or 1) an undefined float-to-integer conversion yields
    scene,      \* the Scene: things, lights, camera
    width,      \* render's width, also the canvas's
    height,     \* render's height, also the canvas's
    pc,         \* where the running operation is
    x,          \* render's inner loop variable
    y,          \* render's outer loop variable
    ray,        \* the ray of the innermost trace_ray call
    depth,      \* the depth of the innermost trace_ray call
    isect,      \* the intersection the innermost trace_ray call found
    stack,      \* the shade calls waiting for their reflected colour
    result,     \* the colour the innermost finished call returned
    nrefl,      \* reflection rays traced for the current pixel
    pixels,     \* the canvas's pixel buffer
    oob,        \* a set_pixel stored outside the buffer
    calls,      \* the (x, y) of the set_pixel calls render has made, in order
    phase,      \* "render": render's loop; "permuted": a loop over a permutation
    visited,    \* the pixels the permuted loop has visited
    refPixels,  \* the buffer render produced, kept for comparison
    call        \* a single call of a function of the library, and what it returned

vars == <<stdMath, ub, scene, width, height, pc, x, y, ray, depth, isect, stack,
          result, nrefl, pixels, oob, calls, phase, visited, refPixels, call>>

\* ------------------------------------------------------------ real_t
\* Values that are used more than once are passed as operator parameters
\* throughout: TLC evaluates a parameter once and a LET definition at every use.

\* steps per unit of the fixed-point model of real_t
Scale == 64
\* magnitude of numeric_limits<real_t>::max() in steps
FltMaxM == 16777215

Abs(n) == IF n < 0 THEN -n ELSE n

NaN == [k |-> "nan", s |-> 1, m |-> 0]
PInf == [k |-> "inf", s |-> 1, m |-> 0]
NInf == [k |-> "inf", s |-> -1, m |-> 0]
PZero == [k |-> "fin", s |-> 1, m |-> 0]
NZero == [k |-> "fin", s |-> -1, m |-> 0]
FltMax == [k |-> "fin", s |-> 1, m |-> FltMaxM]

IsNaN(a) == a.k = "nan"
IsInf(a) == a.k = "inf"
IsFin(a) == a.k = "fin"
IsZero(a) == a.k = "fin" /\ a.m = 0

\* an infinity of sign s
Inf(s) == [k |-> "inf", s |-> s, m |-> 0]

\* a signed magnitude as a value, overflowing to infinity
Mk(s, m) == IF m > FltMaxM THEN Inf(s) ELSE [k |-> "fin", s |-> s, m |-> m]

\* quotient d and remainder r of a division by q, rounded to nearest, ties to even
RoundTo(d, r, q) ==
    IF 2 * r < q THEN d
    ELSE IF 2 * r > q THEN d + 1
    ELSE IF d % 2 = 0 THEN d ELSE d + 1

\* p / q for naturals p, q > 0, rounded to nearest, ties to even
RoundDiv(p, q) == RoundTo(p \div q, p % q, q)

\* the real_t nearest to the rational num/den (a literal of the source)
R(num, den) == Mk(IF num < 0 THEN -1 ELSE 1, RoundDiv(Abs(num) * Scale, den))
\* the real_t of an integer
I(n) == R(n, 1)
One == [k |-> "fin", s |-> 1, m |-> Scale]

\* the signed number of steps of a finite value
Steps(a) == a.s * a.m

\* the real_t of a signed number n of steps; a zero sum is negative only when
\* both terms are negative zeros
OfSteps(n, bothNeg) ==
    IF n = 0 THEN (IF bothNeg THEN NZero ELSE PZero)
    ELSE Mk(IF n < 0 THEN -1 ELSE 1, Abs(n))

FNeg(a) == IF IsNaN(a) THEN NaN ELSE [a EXCEPT !.s = -a.s]

FAdd(a, b) ==
    IF IsNaN(a) \/ IsNaN(b) THEN NaN
    ELSE IF IsInf(a) /\ IsInf(b) THEN (IF a.s = b.s THEN a ELSE NaN)
    ELSE IF IsInf(a) THEN a
    ELSE IF IsInf(b) THEN b
    ELSE OfSteps(Steps(a) + Steps(b), a.s = -1 /\ b.s = -1)

FSub(a, b) == FAdd(a, FNeg(b))

\* the magnitude of a product of finite values; one above FltMaxM is not
\* computed (it would not fit TLC's integers) and reported as FltMaxM + 1
MulMag(m1, m2) ==
    IF m2 # 0 /\ m1 > (FltMaxM * Scale + Scale) \div m2 THEN FltMaxM + 1
    ELSE RoundDiv(m1 * m2, Scale)

FMul(a, b) ==
    IF IsNaN(a) \/ IsNaN(b) THEN NaN
    ELSE IF IsInf(a) \/ IsInf(b)
         THEN (IF IsZero(a) \/ IsZero(b) THEN NaN ELSE Inf(a.s * b.s))
    ELSE Mk(a.s * b.s, MulMag(a.m, b.m))

FDiv(a, b) ==
    IF IsNaN(a) \/ IsNaN(b) THEN NaN
    ELSE IF IsInf(a) THEN (IF IsInf(b) THEN NaN ELSE Inf(a.s * b.s))
    ELSE IF IsInf(b) THEN [k |-> "fin", s |-> a.s * b.s, m |-> 0]
    ELSE IF b.m = 0 THEN (IF a.m = 0 THEN NaN ELSE Inf(a.s * b.s))
    ELSE Mk(a.s * b.s, RoundDiv(a.m * Scale, b.m))

\* the position of a non-NaN value in the order of the extended reals
Ord(a) == IF IsInf(a) THEN a.s * (FltMaxM + 1) ELSE Steps(a)

FLt(a, b) == ~IsNaN(a) /\ ~IsNaN(b) /\ Ord(a) < Ord(b)
FGt(a, b) == FLt(b, a)
FGe(a, b) == ~IsNaN(a) /\ ~IsNaN(b) /\ Ord(a) >= Ord(b)
FEq(a, b) == ~IsNaN(a) /\ ~IsNaN(b) /\ Ord(a) = Ord(b)

\* ------------------------------------------------------------ cmath
\* the largest r with r * r <= n, for lo * lo <= n < hi * hi
\* (n is at most FltMaxM * Scale, which is below 32768 * 32768)
RECURSIVE ISqrtIn(_, _, _)
ISqrtMid(n, lo, hi, mid) ==
    IF mid * mid <= n THEN ISqrtIn(n, mid, hi) ELSE ISqrtIn(n, lo, mid)
ISqrtIn(n, lo, hi) ==
    IF hi - lo <= 1 THEN lo ELSE ISqrtMid(n, lo, hi, (lo + hi) \div 2)

\* r, the root of n rounded down, rounded to nearest
ISqrtUp(n, r) == IF n - r * r > r THEN r + 1 ELSE r
\* the square root of n rounded to nearest
ISqrtRound(n) == ISqrtUp(n, ISqrtIn(n, 0, 32768))

\* cmath::sqrt does not return: the fallback's loop "while (curr != prev)"
\* never ends once curr is NaN, which it is from the first iteration on for
\* a NaN and for an infinite val (inf/inf)
SqrtHangs(val) == ~stdMath /\ (IsNaN(val) \/ IsInf(val))

\* cmath::sqrt.  On a finite val >= 0 the fallback's Newton iteration ends
\* at the root (to the last place), which is what std::sqrt returns; both
\* return a zero unchanged.  Called with val >= 0 or NaN only.
Sqrt(val) ==
    IF IsNaN(val) THEN NaN
    ELSE IF IsZero(val) THEN val
    ELSE IF val.s = -1 THEN NaN
    ELSE IF IsInf(val) THEN val
    ELSE Mk(1, ISqrtRound(val.m * Scale))

\* static_cast<intmax_t>(v) and int(v) of a real: truncation towards zero,
\* undefined for NaN and the infinities
ToInt(v) == IF IsFin(v) THEN v.s * (v.m \div Scale) ELSE ub

\* std::floor
FloorStd(val) ==
    IF ~IsFin(val) THEN val
    ELSE IF val.s = 1 \/ val.m % Scale = 0 THEN [val EXCEPT !.m = (val.m \div Scale) * Scale]
    ELSE Mk(-1, ((val.m \div Scale) + 1) * Scale)

\* the fallback: static_cast<intmax_t>(val >= 0.0 ? val : val - 1.0)
FloorCast(val) == I(ToInt(IF FGe(val, PZero) THEN val ELSE FSub(val, One)))

\* cmath::floor
Floor(val) == IF stdMath THEN FloorStd(val) ELSE FloorCast(val)

\* acc multiplied by base n times, one multiplication after the other (the
\* recursion halves n only to stay shallow; a NaN stays a NaN)
RECURSIVE TimesBase(_, _, _)
TimesRest(base, n, half) == IF IsNaN(half) THEN NaN ELSE TimesBase(base, n, half)
TimesBase(base, n, acc) ==
    IF n = 0 THEN acc
    ELSE IF n = 1 THEN FMul(acc, base)
    ELSE TimesRest(base, n - (n \div 2), TimesBase(base, n \div 2, acc))

\* std::pow(base, iexp)
PowStd(base, iexp) ==
    IF iexp < 0 THEN FDiv(One, TimesBase(base, -iexp, One))
    ELSE TimesBase(base, iexp, One)

\* base squared n times, one squaring after the other (a NaN stays a NaN)
RECURSIVE SquareTimes(_, _)
SquareRest(half, n) == IF IsNaN(half) THEN NaN ELSE SquareTimes(half, n)
SquareTimes(base, n) ==
    IF n = 0 THEN base
    ELSE IF n = 1 THEN FMul(base, base)
    ELSE SquareRest(SquareTimes(base, n \div 2), n - (n \div 2))

\* the fallback: while (iexp-- > 0) { base *= base; } return base;
PowLoop(base, iexp) == IF iexp > 0 THEN SquareTimes(base, iexp) ELSE base

\* cmath::pow
Pow(base, iexp) == IF stdMath THEN PowStd(base, iexp) ELSE PowLoop(base, iexp)

\* ------------------------------------------------------------ vec3, color
Vec(vx, vy, vz) == [x |-> vx, y |-> vy, z |-> vz]
\* a vec3 of integer coordinates
VI(a, b, c) == Vec(I(a), I(b), I(c))
ZeroVec == Vec(PZero, PZero, PZero)

VScale(k, v) == Vec(FMul(k, v.x), FMul(k, v.y), FMul(k, v.z))
VSub(v1, v2) == Vec(FSub(v1.x, v2.x), FSub(v1.y, v2.y), FSub(v1.z, v2.z))
VAdd(v1, v2) == Vec(FAdd(v1.x, v2.x), FAdd(v1.y, v2.y), FAdd(v1.z, v2.z))
Dot(v1, v2) == FAdd(FAdd(FMul(v1.x, v2.x), FMul(v1.y, v2.y)), FMul(v1.z, v2.z))
Mag(v) == Sqrt(Dot(v, v))
MagHangs(v) == SqrtHangs(Dot(v, v))
Norm(v) == VScale(FDiv(One, Mag(v)), v)
NormHangs(v) == MagHangs(v)
Cross(v1, v2) ==
    Vec(FSub(FMul(v1.y, v2.z), FMul(v1.z, v2.y)),
        FSub(FMul(v1.z, v2.x), FMul(v1.x, v2.z)),
        FSub(FMul(v1.x, v2.y), FMul(v1.y, v2.x)))

Color(cr, cg, cb) == [r |-> cr, g |-> cg, b |-> cb]
White == Color(One, One, One)
Grey == Color(R(1, 2), R(1, 2), R(1, 2))
Black == Color(PZero, PZero, PZero)
Background == Black
DefaultColor == Black

CScale(k, v) == Color(FMul(k, v.r), FMul(k, v.g), FMul(k, v.b))
CAdd(v1, v2) == Color(FAdd(v1.r, v2.r), FAdd(v1.g, v2.g), FAdd(v1.b, v2.b))
CMul(v1, v2) == Color(FMul(v1.r, v2.r), FMul(v1.g, v2.g), FMul(v1.b, v2.b))

\* camera::camera, given forward and then right
CameraUp(pos, forward, right) ==
    [pos |-> pos, forward |-> forward, right |-> right,
     up |-> VScale(R(3, 2), Norm(Cross(forward, right)))]
CameraRight(pos, forward) ==
    CameraUp(pos, forward, VScale(R(3, 2), Norm(Cross(forward, VI(0, -1, 0)))))
\* camera::camera
Camera(pos, lookAt) == CameraRight(pos, Norm(VSub(lookAt, pos)))

Ray(start, dir) == [start |-> start, dir |-> dir]

\* ------------------------------------------------------------ surfaces
\* the operator % of C++ on ints: the remainder has the dividend's sign
CRem(a, b) == IF a >= 0 THEN a % b ELSE -((-a) % b)

\* the test of surfaces::checkerboard's diffuse and reflect:
\* int(cmath::floor(pos.z) + cmath::floor(pos.x)) % 2 != 0
CheckerOdd(pos) == CRem(ToInt(FAdd(Floor(pos.z), Floor(pos.x))), 2) # 0

\* surface::diffuse of surfaces::shiny and surfaces::checkerboard
Diffuse(surf, pos) ==
    IF surf = "shiny" THEN White
    ELSE IF CheckerOdd(pos) THEN White ELSE Black

\* surface::specular
Specular(surf, pos) == IF surf = "shiny" THEN Grey ELSE White

\* surface::reflect
Reflect(surf, pos) ==
    IF surf = "shiny" THEN R(7, 10)
    ELSE IF CheckerOdd(pos) THEN R(1, 10) ELSE R(7, 10)

\* surface::roughness
Roughness(surf) == IF surf = "shiny" THEN 250 ELSE 150

\* ------------------------------------------------------------ things
\* sphere::sphere
Sphere(centre, radius, surf) ==
    [type |-> "sphere", centre |-> centre, radius2 |-> FMul(radius, radius),
     surface |-> surf]

\* a plane
Plane(norm, offset, surf) ==
    [type |-> "plane", norm |-> norm, offset |-> offset, surface |-> surf]

\* An optional<intersection>.  hangs: the call that computes it does not
\* return (a cmath::sqrt in it does not), and the other fields mean nothing.
\* std::nullopt, and the value-initialised intersection closest_inter{}
NoHit == [hit |-> FALSE, thing |-> 0, ray |-> Ray(ZeroVec, ZeroVec), dist |-> PZero,
          hangs |-> FALSE]
Hit(self, r, dist) == [hit |-> TRUE, thing |-> self, ray |-> r, dist |-> dist,
                       hangs |-> FALSE]
NoReturn == [NoHit EXCEPT !.hangs = TRUE]

\* sphere::intersect from "if (dist == 0.0)" on
SphereResult(self, r, dist) == IF FEq(dist, PZero) THEN NoHit ELSE Hit(self, r, dist)

\* sphere::intersect, given v and disc
SphereDisc(self, r, v, disc) ==
    IF FGe(v, PZero) /\ FGe(disc, PZero)
    THEN (IF SqrtHangs(disc) THEN NoReturn
          ELSE SphereResult(self, r, FSub(v, Sqrt(disc))))
    ELSE SphereResult(self, r, PZero)

\* sphere::intersect, given eo and v
SphereV(s, self, r, eo, v) ==
    SphereDisc(self, r, v, FSub(s.radius2, FSub(Dot(eo, eo), FMul(v, v))))

\* sphere::intersect, given eo
SphereEo(s, self, r, eo) == SphereV(s, self, r, eo, Dot(eo, r.dir))

\* sphere::intersect; self is the index of the Thing in the scene (pself)
SphereIntersect(s, self, r) == SphereEo(s, self, r, VSub(s.centre, r.start))

\* plane::intersect, given denom
PlaneDenom(p, self, r, denom) ==
    IF FGt(denom, PZero) THEN NoHit
    ELSE Hit(self, r, FDiv(FAdd(Dot(p.norm, r.start), p.offset), FNeg(denom)))

\* plane::intersect
PlaneIntersect(p, self, r) == PlaneDenom(p, self, r, Dot(p.norm, r.dir))

\* any_thing::intersect
Intersect(t, self, r) ==
    IF t.type = "sphere" THEN SphereIntersect(t, self, r) ELSE PlaneIntersect(t, self, r)

\* any_thing::get_normal
GetNormal(t, pos) == IF t.type = "sphere" THEN Norm(VSub(pos, t.centre)) ELSE t.norm

GetNormalHangs(t, pos) == t.type = "sphere" /\ NormHangs(VSub(pos, t.centre))

\* ------------------------------------------------------------ ray_tracer
max_depth == 5

\* the locals of get_intersections
Closest(closest, closest_inter, hangs) ==
    [closest |-> closest, closest_inter |-> closest_inter, hangs |-> hangs]

\* the body of the loop of get_intersections, given inter
ClosestStep(acc, inter) ==
    IF acc.hangs \/ inter.hangs THEN Closest(acc.closest, acc.closest_inter, TRUE)
    ELSE IF inter.hit /\ FLt(inter.dist, acc.closest)
    THEN Closest(inter.dist, inter, FALSE)
    ELSE acc

\* the loop of get_intersections over the Things 1..i
RECURSIVE GetIntersectionsTo(_, _, _)
GetIntersectionsTo(r, things, i) ==
    IF i = 0 THEN Closest(FltMax, NoHit, FALSE)
    ELSE ClosestStep(GetIntersectionsTo(r, things, i - 1), Intersect(things[i], i, r))

\* get_intersections after its loop
ClosestResult(end) ==
    IF end.hangs THEN NoReturn
    ELSE IF FEq(end.closest, FltMax) THEN NoHit ELSE end.closest_inter

\* ray_tracer::get_intersections
GetIntersections(r, things) == ClosestResult(GetIntersectionsTo(r, things, Len(things)))

\* ray_tracer::test_ray: the optional<real_t> is the intersection's hit and dist
TestRay(r, things) == GetIntersections(r, things)

\* A color a call returns, or that the call does not return
Returns(col) == [hangs |-> FALSE, col |-> col]
ColNoReturn == [hangs |-> TRUE, col |-> Black]

\* add_light's lcolor
LColor(illum, light_) ==
    IF FGt(illum, PZero) THEN CScale(illum, light_.col) ELSE DefaultColor

\* add_light's scolor
SColor(specular, surf, light_) ==
    IF FGt(specular, PZero) THEN CScale(Pow(specular, Roughness(surf)), light_.col)
    ELSE DefaultColor

\* add_light from "const auto illum" on: the light is not shadowed
AddLightLit(thing, pos, normal, rd, col, light_, livec) ==
    IF NormHangs(rd) THEN ColNoReturn
    ELSE Returns(CAdd(CAdd(col, CMul(Diffuse(thing.surface, pos),
                                     LColor(Dot(livec, normal), light_))),
                      CMul(Specular(thing.surface, pos),
                           SColor(Dot(livec, Norm(rd)), thing.surface, light_))))

\* an is_in_shadow that also takes a hit at the light's own distance for shade
IsInShadowOrAtLight(near_isect, ldis) ==
    IF near_isect.hit
    THEN FLt(near_isect.dist, Mag(ldis)) \/ FEq(near_isect.dist, Mag(ldis))
    ELSE FALSE

\* add_light's is_in_shadow
IsInShadow(near_isect, ldis) ==
    IF near_isect.hit THEN FLt(near_isect.dist, Mag(ldis)) ELSE FALSE

\* add_light, given ldis, livec and near_isect
AddLightNear(thing, pos, normal, rd, col, light_, ldis, livec, near_isect) ==
    IF near_isect.hangs THEN ColNoReturn
    ELSE IF IsInShadow(near_isect, ldis) THEN Returns(col)
    ELSE AddLightLit(thing, pos, normal, rd, col, light_, livec)

\* add_light, given ldis and livec
AddLightLivec(thing, pos, normal, rd, sc, col, light_, ldis, livec) ==
    AddLightNear(thing, pos, normal, rd, col, light_, ldis, livec,
                 TestRay(Ray(pos, livec), sc.things))

\* add_light, given ldis
AddLightLdis(thing, pos, normal, rd, sc, col, light_, ldis) ==
    IF NormHangs(ldis) THEN ColNoReturn
    ELSE AddLightLivec(thing, pos, normal, rd, sc, col, light_, ldis, Norm(ldis))

\* ray_tracer::add_light
AddLight(thing, pos, normal, rd, sc, col, light_) ==
    AddLightLdis(thing, pos, normal, rd, sc, col, light_, VSub(light_.pos, pos))

\* the body of the loop of get_natural_color: col = add_light(...)
NaturalStep(thing, pos, norm_, rd, sc, acc, light_) ==
    IF acc.hangs THEN acc ELSE AddLight(thing, pos, norm_, rd, sc, acc.col, light_)

\* the loop of get_natural_color over the lights 1..i
RECURSIVE GetNaturalColorTo(_, _, _, _, _, _)
GetNaturalColorTo(thing, pos, norm_, rd, sc, i) ==
    IF i = 0 THEN Returns(DefaultColor)
    ELSE NaturalStep(thing, pos, norm_, rd, sc,
                     GetNaturalColorTo(thing, pos, norm_, rd, sc, i - 1), sc.lights[i])

\* ray_tracer::get_natural_color
GetNaturalColor(thing, pos, norm_, rd, sc) ==
    GetNaturalColorTo(thing, pos, norm_, rd, sc, Len(sc.lights))

\* recenterX of get_point: (x - (width / 2.0)) / 2.0 / width, in double
RecenterX(w, px) == R(2 * px - w, 4 * w)
\* recenterY of get_point: -(y - (height / 2.0)) / 2.0 / height, in double;
\* the negation makes the zero of the middle row a negative zero
RecenterY(h, py) == IF 2 * py = h THEN NZero ELSE R(h - 2 * py, 4 * h)

\* the vector get_point normalises
PointVec(w, h, px, py, cam) ==
    VAdd(cam.forward, VAdd(VScale(RecenterX(w, px), cam.right),
                           VScale(RecenterY(h, py), cam.up)))

\* ray_tracer::get_point
GetPoint(w, h, px, py, cam) == Norm(PointVec(w, h, px, py, cam))

GetPointHangs(w, h, px, py, cam) == NormHangs(PointVec(w, h, px, py, cam))

\* ------------------------------------------------------------ canvas
\* std::clamp<real_t>(val, 0.0, 1.0)
Clamp(val) == IF FLt(val, PZero) THEN PZero ELSE IF FLt(One, val) THEN One ELSE val

\* uint8_t(clamp(c) * 255.0), undefined for NaN
ToByte(c) ==
    LET v == Clamp(c)
    IN  IF IsFin(v) THEN (v.m * 255) \div Scale ELSE ub

\* rgba::from_color of static_canvas and of dynamic_canvas
FromColor(col) == [r |-> ToByte(col.r), g |-> ToByte(col.g), b |-> ToByte(col.b), a |-> 255]

\* an index without the row stride, and one with x and y exchanged
PixelIndexNoStride(w, px, py) == px + py
PixelIndexTransposed(w, px, py) == py + w * px

\* the index set_pixel stores at
PixelIndex(w, px, py) == px + w * py

\* a canvas created with w * h zero-initialised pixels
NewPixels(w, h) == [i \in 0..(w * h - 1) |-> [r |-> 0, g |-> 0, b |-> 0, a |-> 0]]

\* set_pixel's store into the buffer
SetPixelStore(buf, w, px, py, col) ==
    IF PixelIndex(w, px, py) \in DOMAIN buf
    THEN [buf EXCEPT ![PixelIndex(w, px, py)] = FromColor(col)]
    ELSE buf

\* ------------------------------------------------------------ scenes
Light(pos, col) == [pos |-> pos, col |-> col]

\* static_scene and dynamic_scene
StockScene ==
    [things |-> << Plane(VI(0, 1, 0), PZero, "checkerboard"),
                   Sphere(Vec(PZero, One, R(-1, 4)), One, "shiny"),
                   Sphere(Vec(I(-1), R(1, 2), R(3, 2)), R(1, 2), "shiny") >>,
     lights |-> << Light(Vec(I(-2), R(5, 2), PZero), Color(R(49, 100), R(7, 100), R(7, 100))),
                   Light(Vec(R(3, 2), R(5, 2), R(3, 2)), Color(R(7, 100), R(7, 100), R(49, 100))),
                   Light(Vec(R(3, 2), R(5, 2), R(-3, 2)), Color(R(7, 100), R(49, 100), R(71, 1000))),
                   Light(Vec(PZero, R(7, 2), PZero), Color(R(21, 100), R(21, 100), R(35, 100))) >>,
     cam |-> Camera(VI(3, 2, 4), Vec(I(-1), R(1, 2), PZero))]

\* the stock floor and large sphere seen by a camera that looks level
HorizonScene ==
    [things |-> << Plane(VI(0, 1, 0), PZero, "checkerboard"),
                   Sphere(Vec(PZero, One, R(-1, 4)), One, "shiny") >>,
     lights |-> << Light(Vec(I(-2), R(5, 2), PZero), Color(R(49, 100), R(7, 100), R(7, 100))) >>,
     cam |-> Camera(VI(0, 1, 4), VI(0, 1, 0))]

\* a floor and a ceiling that face each other
CorridorScene ==
    [things |-> << Plane(VI(0, 1, 0), PZero, "shiny"),
                   Plane(VI(0, -1, 0), I(4), "checkerboard") >>,
     lights |-> << Light(VI(0, 2, 0), Color(R(1, 2), R(1, 2), R(1, 2))) >>,
     cam |-> Camera(VI(0, 2, 4), VI(0, 1, 0))]

\* nothing to hit
EmptyScene ==
    [things |-> << >>, lights |-> << >>, cam |-> Camera(VI(3, 2, 4), Vec(I(-1), R(1, 2), PZero))]

Scenes == {StockScene, HorizonScene, CorridorScene, EmptyScene}

\* ------------------------------------------------------------ render
\* largest width and height rendered
MaxWidth == 2
MaxHeight == 2

NoCall == [fn |-> "none"]

InitRender ==
    /\ stdMath \in BOOLEAN
    /\ ub \in {0, 1}
    /\ scene \in Scenes
    /\ width \in 0..MaxWidth
    /\ height \in 0..MaxHeight
    /\ pc = "loop"
    /\ x = 0
    /\ y = 0
    /\ ray = Ray(ZeroVec, ZeroVec)
    /\ depth = 0
    /\ isect = NoHit
    /\ stack = << >>
    /\ result = Black
    /\ nrefl = 0
    /\ pixels = NewPixels(width, height)
    /\ oob = FALSE
    /\ calls = << >>
    /\ phase = "render"
    /\ visited = {}
    /\ refPixels = << >>
    /\ call = NoCall

\* an inner loop that steps over every other column
SkipColumn(px) == px + 2

\* the inner loop's x++
NextColumn(px) == px + 1

\* render's "for (int x = 0; x < width; x++)" entering its body: get_point and
\* the call of trace_ray at depth 0
PixelBegin ==
    /\ pc = "loop" /\ phase = "render"
    /\ y < height /\ x < width
    /\ IF GetPointHangs(width, height, x, y, scene.cam)
       THEN pc' = "hang" /\ UNCHANGED ray
       ELSE /\ ray' = Ray(scene.cam.pos, GetPoint(width, height, x, y, scene.cam))
            /\ pc' = "trace"
    /\ depth' = 0
    /\ nrefl' = 0
    /\ UNCHANGED <<stdMath, ub, scene, width, height, x, y, isect, stack, result,
                   pixels, oob, calls, phase, visited, refPixels, call>>

\* the inner loop ends: y++ and x = 0
RowEnd ==
    /\ pc = "loop" /\ phase = "render"
    /\ y < height /\ ~(x < width)
    /\ x' = 0
    /\ y' = y + 1
    /\ UNCHANGED <<stdMath, ub, scene, width, height, pc, ray, depth, isect, stack,
                   result, nrefl, pixels, oob, calls, phase, visited, refPixels, call>>

\* the outer loop ends: render returns
RenderEnd ==
    /\ pc = "loop" /\ phase = "render"
    /\ ~(y < height)
    /\ pc' = "done"
    /\ UNCHANGED <<stdMath, ub, scene, width, height, x, y, ray, depth, isect, stack,
                   result, nrefl, pixels, oob, calls, phase, visited, refPixels, call>>

\* trace_ray, given the intersection
TraceRayTo(i) ==
    IF i.hangs THEN pc' = "hang" /\ UNCHANGED <<isect, result>>
    ELSE IF i.hit THEN isect' = i /\ pc' = "shade" /\ UNCHANGED result
    ELSE result' = Background /\ pc' = "return" /\ UNCHANGED isect

\* trace_ray: get_intersections, then shade or the background
TraceRay ==
    /\ pc = "trace"
    /\ TraceRayTo(GetIntersections(ray, scene.things))
    /\ UNCHANGED <<stdMath, ub, scene, width, height, x, y, ray, depth, stack,
                   nrefl, pixels, oob, calls, phase, visited, refPixels, call>>

\* shade's pos
ShadePos(i) == VAdd(VScale(i.dist, i.ray.dir), i.ray.start)
\* shade's reflect_dir
ReflectDir(d, normal) == VSub(d, VScale(I(2), VScale(Dot(normal, d), normal)))
\* shade's test for the end of the recursion
AtMaxDepth(d) == d >= max_depth

\* shade from "const color reflected_color" on, given natural_color
ShadeReflected(thing, pos, reflect_dir, natural) ==
    IF natural.hangs
    THEN pc' = "hang" /\ UNCHANGED <<ray, depth, stack, result, nrefl>>
    ELSE IF AtMaxDepth(depth)
    THEN /\ result' = CAdd(CAdd(Background, natural.col), Grey)
         /\ pc' = "return"
         /\ UNCHANGED <<ray, depth, stack, nrefl>>
    ELSE /\ stack' = Append(stack, [natural |-> CAdd(Background, natural.col),
                                    reflect |-> Reflect(thing.surface, pos)])
         /\ ray' = Ray(pos, reflect_dir)
         /\ depth' = depth + 1
         /\ nrefl' = nrefl + 1
         /\ pc' = "trace"
         /\ UNCHANGED result

\* shade, given pos, normal and reflect_dir
ShadeNatural(thing, pos, normal, reflect_dir) ==
    ShadeReflected(thing, pos, reflect_dir,
                   GetNaturalColor(thing, pos, normal, reflect_dir, scene))

\* shade, given pos and normal
ShadeNormal(thing, d, pos, normal) ==
    ShadeNatural(thing, pos, normal, ReflectDir(d, normal))

\* shade, given pos
ShadeAt(thing, d, pos) ==
    IF GetNormalHangs(thing, pos)
    THEN pc' = "hang" /\ UNCHANGED <<ray, depth, stack, result, nrefl>>
    ELSE ShadeNormal(thing, d, pos, GetNormal(thing, pos))

\* shade, up to its reflected colour: grey at max_depth, else the call of
\* get_reflection_color, which calls trace_ray at depth + 1
Shade ==
    /\ pc = "shade"
    /\ ShadeAt(scene.things[isect.thing], isect.ray.dir, ShadePos(isect))
    /\ UNCHANGED <<stdMath, ub, scene, width, height, x, y, isect, pixels, oob,
                   calls, phase, visited, refPixels, call>>

\* a nested trace_ray returns to get_reflection_color and shade:
\* natural_color + scale(reflect(pos), traced)
ShadeReturn ==
    /\ pc = "return"
    /\ stack # << >>
    /\ LET top == stack[Len(stack)]
       IN  result' = CAdd(top.natural, CScale(top.reflect, result))
    /\ stack' = SubSeq(stack, 1, Len(stack) - 1)
    /\ depth' = depth - 1
    /\ UNCHANGED <<stdMath, ub, scene, width, height, pc, x, y, ray, isect, nrefl,
                   pixels, oob, calls, phase, visited, refPixels, call>>

\* the trace_ray of depth 0 returns: canvas.set_pixel(x, y, color)
SetPixel ==
    /\ pc = "return"
    /\ stack = << >>
    /\ pixels' = SetPixelStore(pixels, width, x, y, result)
    /\ oob' = (oob \/ PixelIndex(width, x, y) \notin DOMAIN pixels)
    /\ calls' = (IF phase = "render" THEN Append(calls, <<x, y>>) ELSE calls)
    /\ pc' = "next"
    /\ UNCHANGED <<stdMath, ub, scene, width, height, x, y, ray, depth, isect, stack,
                   result, nrefl, phase, visited, refPixels, call>>

\* the inner loop's increment after the body
PixelEnd ==
    /\ pc = "next" /\ phase = "render"
    /\ x' = NextColumn(x)
    /\ pc' = "loop"
    /\ UNCHANGED <<stdMath, ub, scene, width, height, y, ray, depth, isect, stack,
                   result, nrefl, pixels, oob, calls, phase, visited, refPixels, call>>

Next ==
    \/ PixelBegin
    \/ RowEnd
    \/ RenderEnd
    \/ TraceRay
    \/ Shade
    \/ ShadeReturn
    \/ SetPixel
    \/ PixelEnd

Spec == InitRender /\ [][Next]_vars

\* ------------------------------------------------------------ permuted loop
\* render has returned: keep its buffer and start over on a fresh canvas, this
\* time visiting the pixels in any order
PermBegin ==
    /\ pc = "done" /\ phase = "render"
    /\ phase' = "permuted"
    /\ refPixels' = pixels
    /\ pixels' = NewPixels(width, height)
    /\ pc' = "loop"
    /\ UNCHANGED <<stdMath, ub, scene, width, height, x, y, ray, depth, isect, stack,
                   result, nrefl, oob, calls, visited, call>>

\* the body of render's loop entered for a pixel not visited yet
PermPixelBegin ==
    /\ pc = "loop" /\ phase = "permuted"
    /\ \E px \in 0..(width - 1), py \in 0..(height - 1) :
          /\ <<px, py>> \notin visited
          /\ x' = px
          /\ y' = py
          /\ IF GetPointHangs(width, height, px, py, scene.cam)
             THEN pc' = "hang" /\ UNCHANGED ray
             ELSE /\ ray' = Ray(scene.cam.pos, GetPoint(width, height, px, py, scene.cam))
                  /\ pc' = "trace"
    /\ depth' = 0
    /\ nrefl' = 0
    /\ UNCHANGED <<stdMath, ub, scene, width, height, isect, stack, result,
                   pixels, oob, calls, phase, visited, refPixels, call>>

\* the pixel is done
PermPixelEnd ==
    /\ pc = "next" /\ phase = "permuted"
    /\ visited' = visited \cup {<<x, y>>}
    /\ pc' = "loop"
    /\ UNCHANGED <<stdMath, ub, scene, width, height, x, y, ray, depth, isect, stack,
                   result, nrefl, pixels, oob, calls, phase, refPixels, call>>

\* every pixel has been visited
PermEnd ==
    /\ pc = "loop" /\ phase = "permuted"
    /\ visited = (0..(width - 1)) \X (0..(height - 1))
    /\ pc' = "done"
    /\ UNCHANGED <<stdMath, ub, scene, width, height, x, y, ray, depth, isect, stack,
                   result, nrefl, pixels, oob, calls, phase, visited, refPixels, call>>

NextPerm ==
    \/ PixelBegin
    \/ RowEnd
    \/ RenderEnd
    \/ TraceRay
    \/ Shade
    \/ ShadeReturn
    \/ SetPixel
    \/ PixelEnd
    \/ PermBegin
    \/ PermPixelBegin
    \/ PermPixelEnd
    \/ PermEnd

\* most pixels of a canvas whose pixels are visited in every order
MaxPixels == 5

InitPerm == InitRender /\ width * height <= MaxPixels

SpecPerm == InitPerm /\ [][NextPerm]_vars

\* ------------------------------------------------------------ single calls
\* the state in which no render runs and a function of the library is called
InitCall ==
    /\ stdMath \in BOOLEAN
    /\ ub = 0
    /\ scene = EmptyScene
    /\ width = 0
    /\ height = 0
    /\ pc = "idle"
    /\ x = 0
    /\ y = 0
    /\ ray = Ray(ZeroVec, ZeroVec)
    /\ depth = 0
    /\ isect = NoHit
    /\ stack = << >>
    /\ result = Black
    /\ nrefl = 0
    /\ pixels = NewPixels(0, 0)
    /\ oob = FALSE
    /\ calls = << >>
    /\ phase = "call"
    /\ visited = {}
    /\ refPixels = << >>
    /\ call = NoCall

\* a call is made once, and leaves everything of the render alone
OnlyCall == <<stdMath, ub, scene, width, height, x, y, ray, depth, isect, stack,
              result, nrefl, pixels, oob, calls, phase, visited, refPixels>>

\* largest exponent, largest base, and largest coordinate in halves, of the calls
MaxExp == 4
MaxBase == 3
MaxHalves == 5

\* cmath::pow(num/den, iexp)
CallPow ==
    /\ pc = "idle"
    /\ \E num \in (-MaxBase)..MaxBase, den \in {1, 2}, iexp \in 0..MaxExp :
          call' = [fn |-> "pow", num |-> num, den |-> den, iexp |-> iexp,
                   ret |-> Pow(R(num, den), iexp)]
    /\ pc' = "called"
    /\ UNCHANGED OnlyCall

\* cmath::floor(halves/2)
CallFloor ==
    /\ pc = "idle"
    /\ \E halves \in (-MaxHalves)..MaxHalves :
          call' = [fn |-> "floor", halves |-> halves, ret |-> Floor(R(halves, 2))]
    /\ pc' = "called"
    /\ UNCHANGED OnlyCall

\* surfaces::checkerboard's diffuse and reflect at (xh/2, 0, zh/2)
CallCheckerboard ==
    /\ pc = "idle"
    /\ \E xh \in (-MaxHalves)..MaxHalves, zh \in (-MaxHalves)..MaxHalves :
          call' = [fn |-> "checkerboard", xh |-> xh, zh |-> zh,
                   diffuse |-> Diffuse("checkerboard", Vec(R(xh, 2), PZero, R(zh, 2))),
                   reflect |-> Reflect("checkerboard", Vec(R(xh, 2), PZero, R(zh, 2)))]
    /\ pc' = "called"
    /\ UNCHANGED OnlyCall

NextMath == CallPow \/ CallFloor \/ CallCheckerboard

SpecMath == InitCall /\ [][NextMath]_vars

\* The Things a called get_intersections or add_light is given: a sphere
\* around the origin, a small sphere up the y axis, a floor, and a ceiling
\* that faces down
ThingPool ==
    { Sphere(VI(0, 0, 0), I(2), "shiny"),
      Sphere(VI(0, 5, 0), One, "shiny"),
      Plane(VI(0, 1, 0), PZero, "checkerboard"),
      Plane(VI(0, -1, 0), I(4), "shiny") }

\* most Things in a scene of a call
MaxThings == 2

ThingSeqs == UNION {[1..n -> ThingPool] : n \in 0..MaxThings}

\* largest coordinate of a ray's start
MaxStart == 3

\* starts in the plane z = 0; directions along the axes and between them
RayStarts == {VI(sx, sy, 0) : sx \in (-MaxStart)..MaxStart, sy \in (-MaxStart)..MaxStart}
RayDirs ==
    { VI(1, 0, 0), VI(-1, 0, 0), VI(0, 1, 0), VI(0, -1, 0),
      Norm(VI(1, -1, 0)), Norm(VI(-1, 1, 0)), Norm(VI(-1, 0, -1)) }

\* ray_tracer::get_intersections(ray, scene)
CallGetIntersections ==
    /\ pc = "idle"
    /\ \E start \in RayStarts, dir \in RayDirs, things \in ThingSeqs :
          call' = [fn |-> "get_intersections", ray |-> Ray(start, dir), things |-> things,
                   ret |-> GetIntersections(Ray(start, dir), things)]
    /\ pc' = "called"
    /\ UNCHANGED OnlyCall

NextIsect == CallGetIntersections

SpecIsect == InitCall /\ [][NextIsect]_vars

\* the points shaded, the lights and the accumulators of the calls of add_light
LightPoints == {VI(0, 0, 0), VI(0, 1, 0), VI(3, 0, 0)}
LightSet ==
    { Light(VI(0, 4, 0), Color(R(1, 2), R(1, 4), One)),
      Light(VI(0, -4, 0), Color(One, One, One)),
      Light(VI(3, 4, 0), Color(R(1, 4), R(1, 2), R(1, 4))) }
Accumulators == {Black, Color(R(1, 4), R(1, 8), PZero)}
ReflectDirs == {VI(0, 1, 0), Norm(VI(1, 1, 0))}

\* ray_tracer::add_light(thing, pos, normal, rd, scene, col, light)
CallAddLight ==
    /\ pc = "idle"
    /\ \E thing \in ThingPool, pos \in LightPoints, rd \in ReflectDirs,
          things \in ThingSeqs, col \in Accumulators, light_ \in LightSet :
          call' = [fn |-> "add_light", thing |-> thing, pos |-> pos,
                   normal |-> VI(0, 1, 0), rd |-> rd, things |-> things, col |-> col,
                   light |-> light_,
                   ret |-> AddLight(thing, pos, VI(0, 1, 0), rd,
                                    [things |-> things], col, light_)]
    /\ pc' = "called"
    /\ UNCHANGED OnlyCall

NextLight == CallAddLight

SpecLight == InitCall /\ [][NextLight]_vars

C2_SmallestPositive ==
    call.fn = "get_intersections" =>
        LET reported == {i \in 1..Len(call.things) :
                            /\ Intersect(call.things[i], i, call.ray).hit
                            /\ FGt(Intersect(call.things[i], i, call.ray).dist, PZero)}
        IN  /\ call.ret.hit => FGt(call.ret.dist, PZero)
            /\ call.ret.hit =>
                  \A i \in reported :
                     ~FLt(Intersect(call.things[i], i, call.ray).dist, call.ret.dist)
            /\ call.ret.hit <=> reported # {}

\* the part of C3 that holds in every build: depth, the frames of shade and
\* the number of reflection rays of a pixel never exceed max_depth
DepthBounded ==
    /\ depth \in 0..max_depth
    /\ Len(stack) <= max_depth
    /\ nrefl <= max_depth

\* C3: the recursion of trace_ray and shade is bounded by max_depth, at most
\* max_depth reflection rays are spawned for a pixel, and render always
\* terminates: it never enters a call that does not return (pc = "hang", the
\* state no step leaves).
C3_BoundedAndTerminates == DepthBounded /\ pc # "hang"

\* C4: after render returns, every pixel of the canvas has alpha 255, and
\* every index x + width * y set_pixel has stored at is inside the buffer of
\* width * height pixels.
C4_AlphaOpaque ==
    /\ ~oob
    /\ DOMAIN pixels = 0..(width * height - 1)
    /\ (pc = "done" =>
          \A px \in 0..(width - 1), py \in 0..(height - 1) :
             pixels[px + width * py].a = 255)

\* a canvas wider than high has been rendered, and its pixels differ
C4_RenderedWide ==
    /\ pc = "done" /\ phase = "render"
    /\ scene = CorridorScene
    /\ width = 2 /\ height = 1
    /\ pixels[0].a = 255 /\ pixels[1].a = 255

\* C5: the final buffer does not depend on the order in which the pixels are
\* visited: a render that visits them in any order leaves the buffer the
\* row-major render has left.
C5_OrderIndependent ==
    (pc = "done" /\ phase = "permuted") => pixels = refPixels

\* the pixels of a 2 x 2 canvas have been visited in an order that ends with
\* the first pixel, and two of them have different colours
C5_RenderedBackwards ==
    /\ pc = "done" /\ phase = "permuted"
    /\ scene = StockScene
    /\ width = 2 /\ height = 2
    /\ x = 0 /\ y = 0
    /\ \E i, j \in DOMAIN refPixels : refPixels[i] # refPixels[j]

C7_PowIsPower ==
    call.fn = "pow" =>
        FEq(call.ret, IF call.iexp = 0 THEN One
                      ELSE R(call.num ^ call.iexp, call.den ^ call.iexp))

\* C8: checkerboard's diffuse is white and its reflect 0.1 where
\* floor(z) + floor(x) is odd, and black and 0.7 where it is even, for
\* negative coordinates as well as positive ones.
C8_CheckerParity ==
    call.fn = "checkerboard" =>
        LET odd == ((call.zh \div 2) + (call.xh \div 2)) % 2 = 1
        IN  /\ call.diffuse = (IF odd THEN White ELSE Black)
            /\ FEq(call.reflect, IF odd THEN R(1, 10) ELSE R(7, 10))

\* C9: cmath::floor(x) is the greatest integer that is not above x, for
\* negative integers as well, in the build with the fallback as well as in
\* the build with std::floor.
C9_FloorIsFloor ==
    call.fn = "floor" => FEq(call.ret, I(call.halves \div 2))

\* C10: a ray parallel to a plane (dot(norm, ray.dir) = 0) never yields a hit
\* on that plane from get_intersections, whatever the sign of
\* dot(norm, ray.start) + offset.
C10_ParallelNeverHits ==
    call.fn = "get_intersections" =>
        \A i \in 1..Len(call.things) :
           (/\ call.things[i].type = "plane"
            /\ FEq(Dot(call.things[i].norm, call.ray.dir), PZero))
           => ~(call.ret.hit /\ call.ret.thing = i)

====
